---- MODULE Spec2Model ----
(***************************************************************************)
(* Quadrature-encoder decoding pipeline of python_scripts/                 *)
(* parse_encoder_data.py: main's per-dataset loop and the stages it calls. *)
(* A dataframe is a record: "index" is the sequence of row labels, every   *)
(* other field is a column, a function from row label to value.  Angles    *)
(* are fixed-point, in 1/AngleUnitsPerDeg of a degree, so that the step    *)
(* 360/2048 = 0.17578125 and its sums are exact, as they are in binary     *)
(* floating point.                                                         *)
(***************************************************************************)
EXTENDS Integers, Sequences, FiniteSets, TLC

\* ------------------------------------------------------------------ bounds
MaxLen == 3
\* last reading of the clock that _timer sees
MaxClock == 4
\* longest path the user enters, in characters
MaxPathLen == 5

\* values a channel column may hold (2 is a non-binary, corrupt reading)
ChanVals == {0, 1, 2}
\* raw timestamp of the first sample, and the gaps between adjacent samples
FirstTimestamps == {1}
TimeDeltas == {0, 1}

\* -------------------------------------------------------------- constants
AngleUnitsPerDeg == 256
\* ENCODER_RESOLUTION of the source, and the resolution of the worked example
DefaultResolution == 2048
Resolutions == {DefaultResolution, 4}

VARIABLES
    ENCODER_RESOLUTION,   \* module constant of the run (default 2048.0)
    pc,                   \* where main is
    df,                   \* the dataframe of the dataset being processed
    row,                  \* position of df.apply in df.index (1-based)
    out,                  \* results df.apply has collected so far
    current_direction,    \* detect_direction_of_motion.current_direction
    last_direction,       \* detect_change_in_angular_position.last_direction
    current_angle,        \* detect_change_in_angular_position.current_angle
    origin_idx,           \* <<idx>> once detect_initial_stable_angular_position printed it
    wtf_printed,          \* the diagnostic of track_angular_change was printed
    exc                   \* the uncaught exception, if any

vars == <<ENCODER_RESOLUTION, pc, df, row, out, current_direction,
          last_direction, current_angle, origin_idx, wtf_printed, exc>>

\* ---------------------------------------------------------------- helpers
NoDf == [index |-> <<>>]
NoException == [type |-> "None"]
NaN == "NaN"

HasCol(d, c) == c \in DOMAIN d
WithCol(d, c, f) == (c :> f) @@ d
DropCol(d, c) == [k \in (DOMAIN d) \ {c} |-> d[k]]
Labels(d) == {d.index[k] : k \in 1..Len(d.index)}

ENCODER_POSITION_STEP_SIZE_DEG == (360 * AngleUnitsPerDeg) \div ENCODER_RESOLUTION

\* ----------------------------------------------------------------- inputs
RECURSIVE Timestamps(_)
Timestamps(n) ==
    IF n = 0 THEN {<<>>}
    ELSE IF n = 1 THEN {<<t>> : t \in FirstTimestamps}
    ELSE {Append(s, s[n - 1] + d) : s \in Timestamps(n - 1), d \in TimeDeltas}

\* the concrete scenario of the specification: one full clockwise turn
ScenarioCW ==
    [t |-> <<0, 1, 2, 3, 4, 5>>, a |-> <<0, 0, 0, 1, 1, 0>>, b |-> <<0, 0, 1, 1, 0, 0>>]

\* every capture of at most MaxLen samples, the empty one included
Captures ==
    UNION {{[t |-> ts, a |-> as, b |-> bs] :
                ts \in Timestamps(n),
                as \in [1..n -> ChanVals],
                bs \in [1..n -> ChanVals]} : n \in 0..MaxLen}

\* The datasets a run may meet: under the default resolution any capture within
\* the bounds, under resolution 4 the worked example written for it.
Datasets == IF ENCODER_RESOLUTION = DefaultResolution THEN Captures ELSE {ScenarioCW}

\* pd.read_csv: rows labelled 0..n-1, one column per csv column
ReadCsv(cap) ==
    LET n == Len(cap.t) IN
    [index |-> [k \in 1..n |-> k - 1],
     time  |-> [l \in 0..(n - 1) |-> cap.t[l + 1]],
     chan_a |-> [l \in 0..(n - 1) |-> cap.a[l + 1]],
     chan_b |-> [l \in 0..(n - 1) |-> cap.b[l + 1]]]

\* ------------------------------------------------------- bitmask generator
RECURSIVE BitOr(_, _)
BitOr(x, y) ==
    IF x = 0 THEN y
    ELSE IF y = 0 THEN x
    ELSE 2 * BitOr(x \div 2, y \div 2) + (IF x % 2 = 1 \/ y % 2 = 1 THEN 1 ELSE 0)

RECURSIVE bin(_)
bin(n) ==
    IF n < 2 THEN (IF n = 0 THEN "0" ELSE "1")
    ELSE bin(n \div 2) \o (IF n % 2 = 0 THEN "0" ELSE "1")

RECURSIVE zfill(_, _)
zfill(s, width) == IF Len(s) < width THEN zfill("0" \o s, width) ELSE s

\* bitmask with the two channels in each other's bit
bitmask_swapped(chan_a, chan_b) == zfill(bin(BitOr(chan_b * 2, chan_a)), 2)

\* the lambda of lines 238-239 and 250
bitmask(chan_a, chan_b) == zfill(bin(BitOr(chan_a * 2, chan_b)), 2)

\* Series.shift(fill_value=v): positional shift by one row
Shift(d, col, fill) ==
    [l \in Labels(d) |->
        LET k == CHOOSE k \in 1..Len(d.index) : d.index[k] = l
        IN IF k = 1 THEN fill ELSE col[d.index[k - 1]]]

generate_encoder_position_bitmask(d) ==
    LET shifted_A == Shift(d, d.chan_a, d.chan_a[0])
        shifted_B == Shift(d, d.chan_b, d.chan_b[0])
        cur == [l \in Labels(d) |-> bitmask(d.chan_a[l], d.chan_b[l])]
        prev == [l \in Labels(d) |-> bitmask(shifted_A[l], shifted_B[l])]
    IN WithCol(WithCol(d, "current_position_bitmask", cur),
               "previous_position_bitmask", prev)

\* -------------------------------------------------------------- exceptions
KeyError(line) == [type |-> "KeyError", line |-> line]
\* ValueError whose message gives the timestamp as recorded, not normalized
ValueError_raw_timestamp(line, index) ==
    [type |-> "ValueError", line |-> line,
     bitmask |-> index.current_position_bitmask,
     timestamp |-> index.time]

ValueError(line, index) ==
    [type |-> "ValueError", line |-> line,
     bitmask |-> index.current_position_bitmask,
     timestamp |-> index.timestamp_normalized_s]

\* the pd.Series df.apply(axis=1) hands to its function for the row labelled l
Row(d, l) == [c \in (DOMAIN d) \ {"index"} |-> d[c][l]]

\* --------------------------------------------------- stable-origin detector
\* (matches_initial_position < 1).idxmax(): label of the first True, and the
\* first label when no entry is True
\* idxmax taking the last row below one
idxmax_below_one_last(d, matches) ==
    IF \E k \in 1..Len(d.index) : matches[d.index[k]] < 1
    THEN d.index[CHOOSE k \in 1..Len(d.index) :
                    /\ matches[d.index[k]] < 1
                    /\ \A j \in (k + 1)..Len(d.index) : ~(matches[d.index[j]] < 1)]
    ELSE d.index[1]

idxmax_below_one(d, matches) ==
    IF \E k \in 1..Len(d.index) : matches[d.index[k]] < 1
    THEN d.index[CHOOSE k \in 1..Len(d.index) :
                    /\ matches[d.index[k]] < 1
                    /\ \A j \in 1..(k - 1) : ~(matches[d.index[j]] < 1)]
    ELSE d.index[1]

detect_initial_stable_angular_position(d) ==
    IF 0 \notin Labels(d) THEN [exc |-> KeyError(198), df |-> d, idx |-> <<>>]
    ELSE
      LET initial_position_chan_a == d.chan_a[0]
          initial_position_chan_b == d.chan_b[0]
          matches == [l \in Labels(d) |->
                        IF /\ d.chan_a[l] = initial_position_chan_a
                           /\ d.chan_b[l] = initial_position_chan_b
                        THEN 1 ELSE 0]
          d1 == WithCol(d, "matches_initial_position", matches)
          shifted == Shift(d1, matches, NaN)
          d2 == WithCol(d1, "change_occurred",
                        [l \in Labels(d) |-> IF l = 0 THEN FALSE
                                             ELSE shifted[l] # matches[l]])
      IN [exc |-> NoException,
          df |-> DropCol(d2, "change_occurred"),
          idx |-> <<idxmax_below_one(d1, matches)>>]

\* ----------------------------------------------------- timestamp normalizer
\* normalize_timestamps copying the timestamps as they are
normalize_timestamps_absolute(d) ==
    IF 0 \notin Labels(d) THEN [exc |-> KeyError(176), df |-> d]
    ELSE [exc |-> NoException,
          df |-> WithCol(d, "timestamp_normalized_s", [l \in Labels(d) |-> d.time[l]])]

normalize_timestamps(d) ==
    IF 0 \notin Labels(d) THEN [exc |-> KeyError(176), df |-> d]
    ELSE
      LET initial_timestamp_s == d.time[0]
      IN [exc |-> NoException,
          df |-> WithCol(d, "timestamp_normalized_s",
                         [l \in Labels(d) |-> d.time[l] - initial_timestamp_s])]

\* ----------------------------------------------------- direction classifier
\* bitmask_cw_pattern in counting order instead of Gray-code order
bitmask_cw_pattern_counting == <<"00", "01", "10", "11">>

bitmask_cw_pattern == <<"00", "01", "11", "10">>

InPattern(s) == \E k \in 1..Len(bitmask_cw_pattern) : bitmask_cw_pattern[k] = s
\* list.index, 0-based; only used where InPattern holds
PatternIndex(s) ==
    (CHOOSE k \in 1..Len(bitmask_cw_pattern) : bitmask_cw_pattern[k] = s) - 1
PatternAt(i) == bitmask_cw_pattern[i + 1]

\* change_occurred column of lines 265-266
change_flag(current, previous) == IF current = previous THEN 0 ELSE 1

\* check_direction with the names of the two directions exchanged
check_direction_swapped(index, direction_before) ==
    LET current_bitmask == index.current_position_bitmask
        previous_bitmask == index.previous_position_bitmask
    IN
    IF ~InPattern(current_bitmask)
    THEN [exc |-> ValueError(271, index), current_direction |-> direction_before]
    ELSE IF ~InPattern(previous_bitmask)
    THEN [exc |-> ValueError(272, index), current_direction |-> direction_before]
    ELSE
      LET previous_bitmask_index == PatternIndex(previous_bitmask)
          cw_step == PatternAt((previous_bitmask_index + 1) % Len(bitmask_cw_pattern))
          ccw_step == PatternAt((previous_bitmask_index - 1) % Len(bitmask_cw_pattern))
      IN
      IF index.change_occurred = 0
      THEN [exc |-> NoException, current_direction |-> ""]
      ELSE IF current_bitmask = cw_step
      THEN [exc |-> NoException, current_direction |-> "CCW"]
      ELSE IF current_bitmask = ccw_step
      THEN [exc |-> NoException, current_direction |-> "CW"]
      ELSE [exc |-> ValueError(295, index), current_direction |-> direction_before]

\* check_direction without its final raise: an illegal move keeps the direction
check_direction_lenient(index, direction_before) ==
    LET current_bitmask == index.current_position_bitmask
        previous_bitmask == index.previous_position_bitmask
    IN
    IF ~InPattern(current_bitmask)
    THEN [exc |-> ValueError(271, index), current_direction |-> direction_before]
    ELSE IF ~InPattern(previous_bitmask)
    THEN [exc |-> ValueError(272, index), current_direction |-> direction_before]
    ELSE
      LET previous_bitmask_index == PatternIndex(previous_bitmask)
          cw_step == PatternAt((previous_bitmask_index + 1) % Len(bitmask_cw_pattern))
          ccw_step == PatternAt((previous_bitmask_index - 1) % Len(bitmask_cw_pattern))
      IN
      IF index.change_occurred = 0
      THEN [exc |-> NoException, current_direction |-> ""]
      ELSE IF current_bitmask = cw_step
      THEN [exc |-> NoException, current_direction |-> "CW"]
      ELSE IF current_bitmask = ccw_step
      THEN [exc |-> NoException, current_direction |-> "CCW"]
      ELSE [exc |-> NoException, current_direction |-> direction_before]

\* one call of check_direction: the exception it raises, if any, and the
\* value of detect_direction_of_motion.current_direction it leaves (and returns)
check_direction(index, direction_before) ==
    LET current_bitmask == index.current_position_bitmask
        previous_bitmask == index.previous_position_bitmask
    IN
    IF ~InPattern(current_bitmask)
    THEN [exc |-> ValueError(271, index), current_direction |-> direction_before]
    ELSE IF ~InPattern(previous_bitmask)
    THEN [exc |-> ValueError(272, index), current_direction |-> direction_before]
    ELSE
      LET previous_bitmask_index == PatternIndex(previous_bitmask)
          cw_step == PatternAt((previous_bitmask_index + 1) % Len(bitmask_cw_pattern))
          ccw_step == PatternAt((previous_bitmask_index - 1) % Len(bitmask_cw_pattern))
      IN
      IF index.change_occurred = 0
      THEN [exc |-> NoException, current_direction |-> ""]
      ELSE IF ~InPattern(current_bitmask)
      THEN [exc |-> ValueError(279, index), current_direction |-> direction_before]
      ELSE IF current_bitmask = cw_step
      THEN [exc |-> NoException, current_direction |-> "CW"]
      ELSE IF current_bitmask = ccw_step
      THEN [exc |-> NoException, current_direction |-> "CCW"]
      ELSE [exc |-> ValueError(295, index), current_direction |-> direction_before]

\* ----------------------------------------------- angular position integrator
\* track_angular_change with the CCW branch adding the step
track_angular_change_ccw_adds(index, st) ==
    IF index.change_occurred = 0 THEN st
    ELSE IF index.direction = "CW"
    THEN [st EXCEPT !.current_angle = @ + ENCODER_POSITION_STEP_SIZE_DEG,
                    !.last_direction = "CW"]
    ELSE IF index.direction = "CCW"
    THEN [st EXCEPT !.current_angle = @ + ENCODER_POSITION_STEP_SIZE_DEG,
                    !.last_direction = "CCW"]
    ELSE st

\* track_angular_change without the change_occurred test: a sample with no
\* direction of its own moves on in last_direction
track_angular_change_hold(index, st) ==
    IF index.direction = "CW"
    THEN [st EXCEPT !.current_angle = @ + ENCODER_POSITION_STEP_SIZE_DEG,
                    !.last_direction = "CW"]
    ELSE IF index.direction = "CCW"
    THEN [st EXCEPT !.current_angle = @ - ENCODER_POSITION_STEP_SIZE_DEG,
                    !.last_direction = "CCW"]
    ELSE IF st.last_direction = "CW"
    THEN [st EXCEPT !.current_angle = @ + ENCODER_POSITION_STEP_SIZE_DEG]
    ELSE IF st.last_direction = "CCW"
    THEN [st EXCEPT !.current_angle = @ - ENCODER_POSITION_STEP_SIZE_DEG]
    ELSE st

\* track_angular_change printing its diagnostic when an unchanged sample comes
\* before any direction
track_angular_change_diagnose(index, st) ==
    IF index.change_occurred = 0
    THEN (IF st.last_direction = "None" THEN [st EXCEPT !.printed = TRUE] ELSE st)
    ELSE IF index.direction = "CW"
    THEN [st EXCEPT !.current_angle = @ + ENCODER_POSITION_STEP_SIZE_DEG,
                    !.last_direction = "CW"]
    ELSE IF index.direction = "CCW"
    THEN [st EXCEPT !.current_angle = @ - ENCODER_POSITION_STEP_SIZE_DEG,
                    !.last_direction = "CCW"]
    ELSE st

\* one call of track_angular_change on the function-attached state st
track_angular_change(index, st) ==
    IF index.change_occurred = 0 THEN st
    ELSE IF index.direction = "CW"
    THEN [st EXCEPT !.current_angle = @ + ENCODER_POSITION_STEP_SIZE_DEG,
                    !.last_direction = "CW"]
    ELSE IF index.direction = "CCW"
    THEN [st EXCEPT !.current_angle = @ - ENCODER_POSITION_STEP_SIZE_DEG,
                    !.last_direction = "CCW"]
    ELSE IF st.last_direction = "CW"
    THEN [st EXCEPT !.current_angle = @ + ENCODER_POSITION_STEP_SIZE_DEG]
    ELSE IF st.last_direction = "CCW"
    THEN [st EXCEPT !.current_angle = @ - ENCODER_POSITION_STEP_SIZE_DEG]
    ELSE [st EXCEPT !.printed = TRUE]

\* ------------------------------------------------- redundant-sample trimmer
\* df[df.change_occurred == 0]: boolean-mask row selection, labels kept
\* the trimmer keeping the samples whose position changed
trim_redundant_data_points_changed(d) ==
    LET keep(l) == d.change_occurred[l] = 1
        kept == {l \in Labels(d) : keep(l)}
    IN [c \in DOMAIN d |->
          IF c = "index" THEN SelectSeq(d.index, keep)
          ELSE [l \in kept |-> d[c][l]]]

trim_redundant_data_points(d) ==
    LET keep(l) == d.change_occurred[l] = 0
        kept == {l \in Labels(d) : keep(l)}
    IN [c \in DOMAIN d |->
          IF c = "index" THEN SelectSeq(d.index, keep)
          ELSE [l \in kept |-> d[c][l]]]

\* ------------------------------------------------ angular velocity estimator
\* track_angular_velocity with the angle difference taken the wrong way round
track_angular_velocity_reversed(index) ==
    LET delta_theta == index.previous_angle_deg - index.angle_deg
        delta_t == index.timestamp_normalized_s - index.previous_timestamp_normalized_s
    IN IF delta_t # 0 THEN [num |-> delta_theta, den |-> delta_t]
       ELSE [num |-> 0, den |-> 1]

\* delta_theta/delta_t as an exact fraction; 0 when the guard skips the division
track_angular_velocity(index) ==
    LET delta_theta == index.angle_deg - index.previous_angle_deg
        delta_t == index.timestamp_normalized_s - index.previous_timestamp_normalized_s
    IN IF delta_t # 0 THEN [num |-> delta_theta, den |-> delta_t]
       ELSE [num |-> 0, den |-> 1]

detect_angular_velocity(d) ==
    IF 0 \notin Labels(d) THEN [exc |-> KeyError(358), df |-> d]
    ELSE
      LET d1 == WithCol(d, "previous_angle_deg",
                        Shift(d, d.angle_deg, d.angle_deg[0]))
          d2 == WithCol(d1, "previous_timestamp_normalized_s",
                        Shift(d, d.timestamp_normalized_s, d.timestamp_normalized_s[0]))
          d3 == WithCol(d2, "velocity_deg_per_s",
                        [l \in Labels(d) |-> track_angular_velocity(Row(d2, l))])
      IN [exc |-> NoException,
          df |-> DropCol(DropCol(d3, "previous_angle_deg"),
                         "previous_timestamp_normalized_s")]

\* --------------------------------------------------------------------- main
Init ==
    /\ ENCODER_RESOLUTION \in Resolutions
    /\ pc = "load"
    /\ df = NoDf
    /\ row = 0
    /\ out = <<>>
    /\ current_direction = ""
    /\ last_direction = "None"
    /\ current_angle = 0
    /\ origin_idx = <<>>
    /\ wtf_printed = FALSE
    /\ exc = NoException

\* an exception no caller catches ends the process (main has no try/except)
Crash(e) ==
    /\ exc' = e
    /\ pc' = "crashed"

\* main calling normalize_timestamps first
Load_normalizer_first ==
    /\ pc = "load"
    /\ \E cap \in Datasets : df' = ReadCsv(cap)
    /\ pc' = "normalize"
    /\ UNCHANGED <<ENCODER_RESOLUTION, row, out, current_direction, last_direction,
                   current_angle, origin_idx, wtf_printed, exc>>

\* main, lines 428-452: the next dataset of the batch is read
Load ==
    /\ pc = "load"
    /\ \E cap \in Datasets : df' = ReadCsv(cap)
    /\ pc' = "detect_initial"
    /\ UNCHANGED <<ENCODER_RESOLUTION, row, out, current_direction, last_direction,
                   current_angle, origin_idx, wtf_printed, exc>>

\* main, lines 423-428: no dataset is left and main returns
Finish ==
    /\ pc = "load"
    /\ pc' = "done"
    /\ UNCHANGED <<ENCODER_RESOLUTION, df, row, out, current_direction, last_direction,
                   current_angle, origin_idx, wtf_printed, exc>>

DetectInitial ==
    /\ pc = "detect_initial"
    /\ LET r == detect_initial_stable_angular_position(df) IN
         IF r.exc # NoException
         THEN Crash(r.exc) /\ UNCHANGED <<df, origin_idx>>
         ELSE /\ df' = r.df
              /\ origin_idx' = r.idx
              /\ pc' = "normalize"
              /\ UNCHANGED exc
    /\ UNCHANGED <<ENCODER_RESOLUTION, row, out, current_direction, last_direction,
                   current_angle, wtf_printed>>

Normalize ==
    /\ pc = "normalize"
    /\ LET r == normalize_timestamps(df) IN
         IF r.exc # NoException
         THEN Crash(r.exc) /\ UNCHANGED df
         ELSE df' = r.df /\ pc' = "bitmask" /\ UNCHANGED exc
    /\ UNCHANGED <<ENCODER_RESOLUTION, row, out, current_direction, last_direction,
                   current_angle, origin_idx, wtf_printed>>

Bitmask ==
    /\ pc = "bitmask"
    /\ IF 0 \notin Labels(df)
       THEN Crash(KeyError(244)) /\ UNCHANGED df
       ELSE /\ df' = generate_encoder_position_bitmask(df)
            /\ pc' = "direction"
            /\ UNCHANGED exc
    /\ UNCHANGED <<ENCODER_RESOLUTION, row, out, current_direction, last_direction,
                   current_angle, origin_idx, wtf_printed>>

\* detect_direction_of_motion, lines 261-266, up to the call of df.apply
DirectionBegin ==
    /\ pc = "direction"
    /\ current_direction' = ""
    /\ df' = WithCol(df, "change_occurred",
                     [l \in Labels(df) |->
                        change_flag(df.current_position_bitmask[l],
                                    df.previous_position_bitmask[l])])
    /\ row' = 1
    /\ out' = <<>>
    /\ pc' = "check_direction"
    /\ UNCHANGED <<ENCODER_RESOLUTION, last_direction, current_angle, origin_idx,
                   wtf_printed, exc>>

\* df.apply calls check_direction on the next row
CheckDirection ==
    /\ pc = "check_direction"
    /\ row <= Len(df.index)
    /\ LET r == check_direction(Row(df, df.index[row]), current_direction) IN
         IF r.exc # NoException
         THEN Crash(r.exc) /\ UNCHANGED <<row, out, current_direction>>
         ELSE /\ current_direction' = r.current_direction
              /\ out' = Append(out, r.current_direction)
              /\ row' = row + 1
              /\ UNCHANGED <<pc, exc>>
    /\ UNCHANGED <<ENCODER_RESOLUTION, df, last_direction, current_angle, origin_idx,
                   wtf_printed>>

\* lines 301-304: the collected results become the direction column
DirectionEnd ==
    /\ pc = "check_direction"
    /\ row > Len(df.index)
    /\ df' = WithCol(df, "direction", [l \in Labels(df) |->
                        out[CHOOSE k \in 1..Len(df.index) : df.index[k] = l]])
    /\ row' = 0
    /\ out' = <<>>
    /\ pc' = "angle"
    /\ UNCHANGED <<ENCODER_RESOLUTION, current_direction, last_direction, current_angle,
                   origin_idx, wtf_printed, exc>>

\* the values lines 316-317 and again lines 346-347 give the static variables
static_variables_stale ==
    [last_direction |-> last_direction, current_angle |-> current_angle]

static_variables_reset == [last_direction |-> "None", current_angle |-> 0]

\* detect_change_in_angular_position, lines 316-317, up to the call of df.apply
AngleBegin ==
    /\ pc = "angle"
    /\ last_direction' = static_variables_reset.last_direction
    /\ current_angle' = static_variables_reset.current_angle
    /\ row' = 1
    /\ out' = <<>>
    /\ pc' = "track_angular_change"
    /\ UNCHANGED <<ENCODER_RESOLUTION, df, current_direction, origin_idx, wtf_printed, exc>>

\* df.apply calls track_angular_change on the next row
TrackAngularChange ==
    /\ pc = "track_angular_change"
    /\ row <= Len(df.index)
    /\ LET st == track_angular_change(
                    Row(df, df.index[row]),
                    [current_angle |-> current_angle,
                     last_direction |-> last_direction,
                     printed |-> wtf_printed]) IN
         /\ current_angle' = st.current_angle
         /\ last_direction' = st.last_direction
         /\ wtf_printed' = st.printed
         /\ out' = Append(out, st.current_angle)
    /\ row' = row + 1
    /\ UNCHANGED <<ENCODER_RESOLUTION, pc, df, current_direction, origin_idx, exc>>

\* lines 342-349: the angle column is assigned and the static variables reset
AngleEnd ==
    /\ pc = "track_angular_change"
    /\ row > Len(df.index)
    /\ df' = WithCol(df, "angle_deg", [l \in Labels(df) |->
                        out[CHOOSE k \in 1..Len(df.index) : df.index[k] = l]])
    /\ current_angle' = static_variables_reset.current_angle
    /\ last_direction' = static_variables_reset.last_direction
    /\ row' = 0
    /\ out' = <<>>
    /\ pc' = "trim"
    /\ UNCHANGED <<ENCODER_RESOLUTION, current_direction, origin_idx, wtf_printed, exc>>

Trim ==
    /\ pc = "trim"
    /\ df' = trim_redundant_data_points(df)
    /\ pc' = "velocity"
    /\ UNCHANGED <<ENCODER_RESOLUTION, row, out, current_direction, last_direction,
                   current_angle, origin_idx, wtf_printed, exc>>

Velocity ==
    /\ pc = "velocity"
    /\ LET r == detect_angular_velocity(df) IN
         IF r.exc # NoException
         THEN Crash(r.exc) /\ UNCHANGED df
         ELSE df' = r.df /\ pc' = "output" /\ UNCHANGED exc
    /\ UNCHANGED <<ENCODER_RESOLUTION, row, out, current_direction, last_direction,
                   current_angle, origin_idx, wtf_printed>>

\* main, lines 468-488: plots and csv are written, df is deleted, the loop goes on
Output ==
    /\ pc = "output"
    /\ df' = NoDf
    /\ origin_idx' = <<>>
    /\ pc' = "load"
    /\ UNCHANGED <<ENCODER_RESOLUTION, row, out, current_direction, last_direction,
                   current_angle, wtf_printed, exc>>

\* ------------------------------------------------------------------ _timer
VARIABLES
    t_i,                  \* _timer.t_i: <<>> for None, <<t>> for a start time
    timer_ret,            \* <<value>> returned by the last call of _timer
    clock,                \* time.time()
    timer_hist            \* the last call, and the start call still waiting for its stop

timer_vars == <<t_i, timer_ret, clock, timer_hist>>

\* one call of _timer(start) at time now, with _timer.t_i as the call found it
timer(start, t_i_before, now) ==
    LET t == <<>>   \* line 53
    IN IF start
       THEN IF t # <<>>
            THEN [ret |-> 0 - 1, t_i |-> t]
            ELSE [ret |-> 0, t_i |-> <<now>>]
       ELSE IF t # <<>>
            THEN [ret |-> now - t[1], t_i |-> <<>>]
            ELSE [ret |-> 0 - 1, t_i |-> <<>>]

TimerInit ==
    /\ t_i = <<>>
    /\ timer_ret = <<>>
    /\ clock = 0
    /\ timer_hist = [last |-> "none", at |-> 0, pending |-> <<>>, was_pending |-> <<>>]

TimerCall ==
    \E start \in BOOLEAN :
        LET r == timer(start, t_i, clock) IN
        /\ t_i' = r.t_i
        /\ timer_ret' = <<r.ret>>
        /\ timer_hist' = [last |-> IF start THEN "start" ELSE "stop",
                          at |-> clock,
                          pending |-> IF start THEN <<clock>> ELSE <<>>,
                          was_pending |-> timer_hist.pending]
        /\ UNCHANGED clock

\* time passes between two calls
Tick ==
    /\ clock < MaxClock
    /\ clock' = clock + 1
    /\ UNCHANGED <<t_i, timer_ret, timer_hist>>

\* ------------------------------------------- the same dataset processed twice
VARIABLES
    first_run             \* what the first of two runs read and what it put out

RerunInit == first_run = [n |-> 0]

\* the batch holds the same capture twice: the first is read, ...
LoadFirst ==
    /\ first_run.n = 0
    /\ Load
    /\ first_run' = [n |-> 1, input |-> df']

\* ... its output is kept, ...
OutputFirst ==
    /\ first_run.n = 1
    /\ Output
    /\ first_run' = [n |-> 2, input |-> first_run.input, output |-> df]

\* ... and the same rows are read again
LoadAgain ==
    /\ first_run.n = 2
    /\ pc = "load"
    /\ df' = first_run.input
    /\ pc' = "detect_initial"
    /\ first_run' = [first_run EXCEPT !.n = 3]
    /\ UNCHANGED <<ENCODER_RESOLUTION, row, out, current_direction, last_direction,
                   current_angle, origin_idx, wtf_printed, exc>>

OutputAgain ==
    /\ first_run.n = 3
    /\ Output
    /\ UNCHANGED first_run

\* -------------------------------------------------------- get_dataset_path
VARIABLES
    path_entered,         \* <<path>> once the user has answered input()
    path_returned         \* <<path>> once get_dataset_path has returned

path_vars == <<path_entered, path_returned>>

\* a path is the sequence of its characters
PathChars == {"d", "/"}
RECURSIVE PathsOfLen(_)
PathsOfLen(n) ==
    IF n = 0 THEN {<<>>}
    ELSE {Append(q, ch) : q \in PathsOfLen(n - 1), ch \in PathChars}
Paths == UNION {PathsOfLen(n) : n \in 0..MaxPathLen}

\* common.default_path, which no entered path here equals
default_path == <<"C", ":">>

\* str.endswith for a one-character suffix
endswith(path, ch) == Len(path) > 0 /\ path[Len(path)] = ch

\* the body of get_dataset_path after input() has returned path
get_dataset_path(path) ==
    IF path # <<>> /\ ~endswith(path, "/")
    THEN path \o <<"/">>
    ELSE default_path

PathInit ==
    /\ path_entered = <<>>
    /\ path_returned = <<>>

\* lines 91-92: the user answers the prompt
Input ==
    /\ path_entered = <<>>
    /\ \E path \in Paths : path_entered' = <<path>>
    /\ UNCHANGED path_returned

\* lines 94-101
GetDatasetPath ==
    /\ path_entered # <<>>
    /\ path_returned = <<>>
    /\ path_returned' = <<get_dataset_path(path_entered[1])>>
    /\ UNCHANGED path_entered

\* ------------------------------------------- main's loop over the categories
VARIABLES
    assertions,           \* the interpreter runs assert statements (no -O)
    datasets_paths,       \* categories main has still to visit, with their datasets
    category,             \* the category of the loop of line 423
    datasets,             \* datasets of that category main has still to visit
    LOGIC_ANALYZER_ENCODER_CHAN_A,
    LOGIC_ANALYZER_ENCODER_CHAN_B,
    main_pc,              \* where main is in its two loops
    processed             \* datasets processed, with the channel names then in effect

batch_vars == <<assertions, datasets_paths, category, datasets,
                LOGIC_ANALYZER_ENCODER_CHAN_A, LOGIC_ANALYZER_ENCODER_CHAN_B,
                main_pc, processed>>

setup_vars == <<path_vars, batch_vars>>

SUPPORTED_DATASET_CATEGORIES == <<"flir_blackfly_s", "rpi_cam", "sbs_encoder_data">>
Supported(cat) == \E k \in 1..3 : SUPPORTED_DATASET_CATEGORIES[k] = cat

\* folder names scan_for_datasets can find, in the order its sort gives them
CategoryFolders ==
    <<"calibration", "flir_blackfly_s", "other", "rpi_cam", "sbs_encoder_data">>
DatasetFolders == <<"0", "1">>
Elements(seq) == {seq[k] : k \in 1..Len(seq)}
Sorted(order, set) == SelectSeq(order, LAMBDA x : x \in set)

\* what scan_for_datasets can return: categories in sorted order, each with a
\* non-empty sorted list of datasets
Batches ==
    UNION {{[k \in 1..Len(Sorted(CategoryFolders, cats)) |->
                [category |-> Sorted(CategoryFolders, cats)[k],
                 datasets |-> Sorted(DatasetFolders, f[Sorted(CategoryFolders, cats)[k]])]]
            : f \in [cats -> (SUBSET Elements(DatasetFolders)) \ {{}}]}
           : cats \in SUBSET Elements(CategoryFolders)}

\* block_list, line 33
Blocked(cat, dataset) == cat = "flir_blackfly_s" /\ dataset = "0"

\* set_dataset_format relying on the module's defaults for rpi_cam
set_dataset_format_rpi_default(cat, asserting, chan_a, chan_b) ==
    IF asserting /\ ~Supported(cat)
    THEN [raised |-> TRUE, ret |-> FALSE, chan_a |-> chan_a, chan_b |-> chan_b]
    ELSE IF cat = SUPPORTED_DATASET_CATEGORIES[1]
    THEN [raised |-> FALSE, ret |-> TRUE, chan_a |-> "DIO 0", chan_b |-> "DIO 1"]
    ELSE IF cat = SUPPORTED_DATASET_CATEGORIES[2]
    THEN [raised |-> FALSE, ret |-> TRUE, chan_a |-> chan_a, chan_b |-> chan_b]
    ELSE IF cat = SUPPORTED_DATASET_CATEGORIES[3]
    THEN [raised |-> FALSE, ret |-> TRUE, chan_a |-> "DIO 0", chan_b |-> "DIO 1"]
    ELSE [raised |-> FALSE, ret |-> FALSE, chan_a |-> chan_a, chan_b |-> chan_b]

\* set_dataset_format: whether its assert raised, what it returned and the two
\* globals as it left them
set_dataset_format(cat, asserting, chan_a, chan_b) ==
    IF asserting /\ ~Supported(cat)
    THEN [raised |-> TRUE, ret |-> FALSE, chan_a |-> chan_a, chan_b |-> chan_b]
    ELSE IF cat = SUPPORTED_DATASET_CATEGORIES[1]
    THEN [raised |-> FALSE, ret |-> TRUE, chan_a |-> "DIO 0", chan_b |-> "DIO 1"]
    ELSE IF cat = SUPPORTED_DATASET_CATEGORIES[2]
    THEN [raised |-> FALSE, ret |-> TRUE, chan_a |-> "DIO 1", chan_b |-> "DIO 2"]
    ELSE IF cat = SUPPORTED_DATASET_CATEGORIES[3]
    THEN [raised |-> FALSE, ret |-> TRUE, chan_a |-> "DIO 0", chan_b |-> "DIO 1"]
    ELSE [raised |-> FALSE, ret |-> FALSE, chan_a |-> chan_a, chan_b |-> chan_b]

\* the module as imported: lines 20-21
BatchInit ==
    /\ assertions = TRUE
    /\ datasets_paths = <<>>
    /\ category = ""
    /\ datasets = <<>>
    /\ LOGIC_ANALYZER_ENCODER_CHAN_A = "DIO 1"
    /\ LOGIC_ANALYZER_ENCODER_CHAN_B = "DIO 2"
    /\ main_pc = "scan"
    /\ processed = <<>>

\* lines 495-496: the interpreter was started with or without -O and the folders
\* are scanned
Scan ==
    /\ main_pc = "scan"
    /\ assertions' \in BOOLEAN
    /\ datasets_paths' \in Batches
    /\ main_pc' = "main"
    /\ UNCHANGED <<category, datasets, LOGIC_ANALYZER_ENCODER_CHAN_A,
                   LOGIC_ANALYZER_ENCODER_CHAN_B, processed>>

\* lines 420-421
MainBegin ==
    /\ main_pc = "main"
    /\ main_pc' = IF datasets_paths = <<>> THEN "aborted" ELSE "for_category"
    /\ UNCHANGED <<assertions, datasets_paths, category, datasets,
                   LOGIC_ANALYZER_ENCODER_CHAN_A, LOGIC_ANALYZER_ENCODER_CHAN_B,
                   processed>>

\* lines 423-426: the next category, or the end of main
ForCategory ==
    /\ main_pc = "for_category"
    /\ IF datasets_paths = <<>>
       THEN /\ main_pc' = "done"
            /\ UNCHANGED <<datasets_paths, category, datasets,
                           LOGIC_ANALYZER_ENCODER_CHAN_A, LOGIC_ANALYZER_ENCODER_CHAN_B>>
       ELSE LET r == set_dataset_format(Head(datasets_paths).category, assertions,
                                        LOGIC_ANALYZER_ENCODER_CHAN_A,
                                        LOGIC_ANALYZER_ENCODER_CHAN_B) IN
            /\ category' = Head(datasets_paths).category
            /\ datasets_paths' = Tail(datasets_paths)
            /\ LOGIC_ANALYZER_ENCODER_CHAN_A' = r.chan_a
            /\ LOGIC_ANALYZER_ENCODER_CHAN_B' = r.chan_b
            /\ IF r.raised
               THEN main_pc' = "assertion_error" /\ UNCHANGED datasets
               ELSE IF ~r.ret
               THEN main_pc' = "aborted" /\ UNCHANGED datasets
               ELSE /\ main_pc' = "for_dataset"
                    /\ datasets' = Head(datasets_paths).datasets
    /\ UNCHANGED <<assertions, processed>>

\* lines 428-488: the next dataset of the category is skipped, or processed with
\* the channel names in effect, which may end in an exception
ForDataset ==
    /\ main_pc = "for_dataset"
    /\ IF datasets = <<>>
       THEN main_pc' = "for_category" /\ UNCHANGED <<datasets, processed>>
       ELSE IF Blocked(category, Head(datasets))
       THEN datasets' = Tail(datasets) /\ UNCHANGED <<main_pc, processed>>
       ELSE /\ processed' = Append(processed,
                                   [category |-> category,
                                    dataset |-> Head(datasets),
                                    chan_a |-> LOGIC_ANALYZER_ENCODER_CHAN_A,
                                    chan_b |-> LOGIC_ANALYZER_ENCODER_CHAN_B])
            /\ datasets' = Tail(datasets)
            /\ \E raised \in BOOLEAN :
                  main_pc' = IF raised THEN "crashed" ELSE "for_dataset"
    /\ UNCHANGED <<assertions, datasets_paths, category,
                   LOGIC_ANALYZER_ENCODER_CHAN_A, LOGIC_ANALYZER_ENCODER_CHAN_B>>

\* --------------------------------------------------------- specifications
all_vars == <<vars, timer_vars, first_run, setup_vars>>

\* the process before main runs and before _timer is called
InitAll ==
    /\ Init
    /\ TimerInit
    /\ RerunInit
    /\ PathInit
    /\ BatchInit

Next ==
    \/ Load /\ UNCHANGED <<timer_vars, first_run, setup_vars>>
    \/ Finish /\ UNCHANGED <<timer_vars, first_run, setup_vars>>
    \/ DetectInitial /\ UNCHANGED <<timer_vars, first_run, setup_vars>>
    \/ Normalize /\ UNCHANGED <<timer_vars, first_run, setup_vars>>
    \/ Bitmask /\ UNCHANGED <<timer_vars, first_run, setup_vars>>
    \/ DirectionBegin /\ UNCHANGED <<timer_vars, first_run, setup_vars>>
    \/ CheckDirection /\ UNCHANGED <<timer_vars, first_run, setup_vars>>
    \/ DirectionEnd /\ UNCHANGED <<timer_vars, first_run, setup_vars>>
    \/ AngleBegin /\ UNCHANGED <<timer_vars, first_run, setup_vars>>
    \/ TrackAngularChange /\ UNCHANGED <<timer_vars, first_run, setup_vars>>
    \/ AngleEnd /\ UNCHANGED <<timer_vars, first_run, setup_vars>>
    \/ Trim /\ UNCHANGED <<timer_vars, first_run, setup_vars>>
    \/ Velocity /\ UNCHANGED <<timer_vars, first_run, setup_vars>>
    \/ Output /\ UNCHANGED <<timer_vars, first_run, setup_vars>>

\* main over a batch of datasets
Spec == InitAll /\ [][Next]_all_vars

RerunNext ==
    \/ LoadFirst /\ UNCHANGED <<timer_vars, setup_vars>>
    \/ OutputFirst /\ UNCHANGED <<timer_vars, setup_vars>>
    \/ LoadAgain /\ UNCHANGED <<timer_vars, setup_vars>>
    \/ OutputAgain /\ UNCHANGED <<timer_vars, setup_vars>>
    \/ DetectInitial /\ UNCHANGED <<timer_vars, first_run, setup_vars>>
    \/ Normalize /\ UNCHANGED <<timer_vars, first_run, setup_vars>>
    \/ Bitmask /\ UNCHANGED <<timer_vars, first_run, setup_vars>>
    \/ DirectionBegin /\ UNCHANGED <<timer_vars, first_run, setup_vars>>
    \/ CheckDirection /\ UNCHANGED <<timer_vars, first_run, setup_vars>>
    \/ DirectionEnd /\ UNCHANGED <<timer_vars, first_run, setup_vars>>
    \/ AngleBegin /\ UNCHANGED <<timer_vars, first_run, setup_vars>>
    \/ TrackAngularChange /\ UNCHANGED <<timer_vars, first_run, setup_vars>>
    \/ AngleEnd /\ UNCHANGED <<timer_vars, first_run, setup_vars>>
    \/ Trim /\ UNCHANGED <<timer_vars, first_run, setup_vars>>
    \/ Velocity /\ UNCHANGED <<timer_vars, first_run, setup_vars>>

\* main over a batch that holds one dataset twice
SpecRerun == InitAll /\ [][RerunNext]_all_vars

TimerNext ==
    \/ TimerCall /\ UNCHANGED <<vars, first_run, setup_vars>>
    \/ Tick /\ UNCHANGED <<vars, first_run, setup_vars>>

\* calls of _timer as time passes
SpecTimer == InitAll /\ [][TimerNext]_all_vars

PathNext ==
    \/ Input /\ UNCHANGED <<vars, timer_vars, first_run, batch_vars>>
    \/ GetDatasetPath /\ UNCHANGED <<vars, timer_vars, first_run, batch_vars>>

\* the user is asked for the datasets' folder
SpecPath == InitAll /\ [][PathNext]_all_vars

BatchNext ==
    \/ Scan /\ UNCHANGED <<vars, timer_vars, first_run, path_vars>>
    \/ MainBegin /\ UNCHANGED <<vars, timer_vars, first_run, path_vars>>
    \/ ForCategory /\ UNCHANGED <<vars, timer_vars, first_run, path_vars>>
    \/ ForDataset /\ UNCHANGED <<vars, timer_vars, first_run, path_vars>>

\* main's two loops over the categories and their datasets
SpecBatch == InitAll /\ [][BatchNext]_all_vars

\* ------------------------------------------------------------------ claims
\* vocabulary of the properties below
Cycle == <<"00", "01", "11", "10">>
InCycle(code) == \E k \in 1..4 : Cycle[k] = code
\* 0-based position of a code in the cycle
CyclePos(code) == (CHOOSE k \in 1..4 : Cycle[k] = code) - 1
Binary(v) == v \in {0, 1}
Step == (360 * AngleUnitsPerDeg) \div ENCODER_RESOLUTION
Changed(l) == df.current_position_bitmask[l] # df.previous_position_bitmask[l]

\* df.apply of detect_direction_of_motion is running, or stopped by an exception
Classifying == HasCol(df, "change_occurred") /\ ~HasCol(df, "direction")
\* number of rows classified so far, in index order
NClassified == IF HasCol(df, "direction") THEN Len(df.index)
               ELSE IF Classifying THEN Len(out) ELSE 0
\* the direction given to the k-th row
DirectionOf(k) == IF HasCol(df, "direction") THEN df.direction[df.index[k]] ELSE out[k]
\* the rows are those of the capture, none trimmed away yet
Untrimmed == \A k \in 1..Len(df.index) : df.index[k] = k - 1

\* C1: every classified sample whose code changed is CW when its code is one
\* position forward of the previous code in the cycle and CCW when it is one
\* position backward, and no transition is both.
C1_DirectionFollowsCycle ==
    \A k \in 1..NClassified :
        LET l == df.index[k] IN
        Changed(l) =>
            LET p == CyclePos(df.previous_position_bitmask[l])
                c == CyclePos(df.current_position_bitmask[l])
            IN /\ (c = (p + 1) % 4) => DirectionOf(k) = "CW"
               /\ (c = (p - 1) % 4) => DirectionOf(k) = "CCW"
               /\ ~(c = (p + 1) % 4 /\ c = (p - 1) % 4)

\* a capture turned one step clockwise and one step back has been classified
C1_Witness ==
    /\ pc = "angle"
    /\ \E j, k \in 1..Len(df.index) :
          /\ Changed(df.index[j]) /\ DirectionOf(j) = "CW"
          /\ Changed(df.index[k]) /\ DirectionOf(k) = "CCW"

\* the row df.apply hands to check_direction next is a changed transition
\* between two codes of the cycle that are not adjacent in it
AtIllegalTransition ==
    /\ pc = "check_direction"
    /\ row <= Len(df.index)
    /\ LET l == df.index[row] IN
         /\ Changed(l)
         /\ InCycle(df.current_position_bitmask[l])
         /\ InCycle(df.previous_position_bitmask[l])
         /\ LET p == CyclePos(df.previous_position_bitmask[l])
                c == CyclePos(df.current_position_bitmask[l])
            IN c # (p + 1) % 4 /\ c # (p - 1) % 4

\* C2: a changed transition whose cycle-index delta is not +1 or -1 raises the
\* illegal-change error, the run stops there for good, and the capture gets
\* neither a direction nor an angle column.
C2_IllegalTransitionAborts ==
    [][/\ AtIllegalTransition =>
            /\ pc' = "crashed"
            /\ exc'.type = "ValueError" /\ exc'.line = 295
            /\ ~HasCol(df', "direction") /\ ~HasCol(df', "angle_deg")
       /\ pc = "crashed" => FALSE]_vars

\* the run was stopped by the transition 00 -> 11
C2_Witness ==
    /\ pc = "crashed"
    /\ exc.type = "ValueError" /\ exc.line = 295
    /\ df.previous_position_bitmask[df.index[row]] = "00"
    /\ df.current_position_bitmask[df.index[row]] = "11"

\* C3: the trimmed sequence is the order-preserving subsequence of the samples
\* whose code changed: as many rows as changed samples, all of them changed.
C3_TrimKeepsChanged ==
    [][pc = "trim" =>
          /\ df'.index = SelectSeq(df.index, Changed)
          /\ \A k \in 1..Len(df'.index) : df'.change_occurred[df'.index[k]] = 1]_vars

\* df.apply of detect_change_in_angular_position is running
Integrating == pc = "track_angular_change"
\* the angle recorded for the k-th row, and for the row before it
AngleOf(k) == IF HasCol(df, "angle_deg") THEN df.angle_deg[df.index[k]] ELSE out[k]
NIntegrated == IF HasCol(df, "angle_deg") THEN Len(df.index)
               ELSE IF Integrating THEN Len(out) ELSE 0
\* some row before the k-th was classified CW or CCW
DirectionSeenBefore(k) == \E j \in 1..(k - 1) : DirectionOf(j) \in {"CW", "CCW"}
\* the direction of the last row before the k-th that was classified CW or CCW
LastDirectionBefore(k) ==
    DirectionOf(CHOOSE j \in 1..(k - 1) :
                  /\ DirectionOf(j) \in {"CW", "CCW"}
                  /\ \A i \in (j + 1)..(k - 1) : DirectionOf(i) \notin {"CW", "CCW"})

\* C4: between adjacent raw samples the angle grows by one step at a CW sample,
\* shrinks by one step at a CCW sample and does not move otherwise; a CW or CCW
\* sample leaves its direction in last_direction.
C4_AngleMovesOneStepPerTransition ==
    Untrimmed =>
      /\ \A k \in 2..NIntegrated :
            AngleOf(k) - AngleOf(k - 1) =
                IF DirectionOf(k) = "CW" THEN Step
                ELSE IF DirectionOf(k) = "CCW" THEN 0 - Step
                ELSE 0
      /\ (Integrating /\ Len(out) >= 1 /\ DirectionOf(Len(out)) \in {"CW", "CCW"})
            => last_direction = DirectionOf(Len(out))

\* the integrator has just taken a CCW sample after a CW one
C4_Witness ==
    /\ Integrating
    /\ Len(out) >= 3
    /\ DirectionOf(Len(out) - 1) = "CW"
    /\ DirectionOf(Len(out)) = "CCW"
    /\ last_direction = "CCW"

\* C5, as the specification states it: an UNCHANGED sample that follows a CW or
\* CCW sample is recorded one step further in last_direction.
C5_UnchangedAdvancesAngle ==
    Untrimmed =>
      \A k \in 2..NIntegrated :
        (DirectionOf(k) = "" /\ DirectionSeenBefore(k)) =>
            AngleOf(k) = AngleOf(k - 1)
                         + (IF LastDirectionBefore(k) = "CW" THEN Step ELSE 0 - Step)

\* C5, amended: an UNCHANGED sample that follows a CW or CCW sample is recorded
\* with the angle of the sample before it, and last_direction keeps its value.
C5_UnchangedHoldsAngle ==
    Untrimmed =>
      /\ \A k \in 2..NIntegrated :
            (DirectionOf(k) = "" /\ DirectionSeenBefore(k)) => AngleOf(k) = AngleOf(k - 1)
      /\ (Integrating /\ Len(out) >= 2 /\ DirectionOf(Len(out)) = ""
             /\ DirectionSeenBefore(Len(out)))
            => last_direction = LastDirectionBefore(Len(out))

\* the integrator has just taken an UNCHANGED sample after a CW one
C5_Witness ==
    /\ Integrating
    /\ Len(out) >= 3
    /\ DirectionOf(Len(out) - 1) = "CW"
    /\ DirectionOf(Len(out)) = ""
    /\ out[Len(out)] = Step

\* track_angular_change is about to take an UNCHANGED sample with no direction seen
AtUndefinedHold ==
    /\ Integrating
    /\ row <= Len(df.index)
    /\ df.direction[df.index[row]] = ""
    /\ last_direction = "None"

\* C6, as the specification states it: an UNCHANGED sample met while
\* last_direction is undefined ends the run with an UndefinedDirectionHold error.
C6_UndefinedHoldRaises ==
    [][AtUndefinedHold =>
          /\ pc' = "crashed"
          /\ exc'.type = "UndefinedDirectionHold"]_vars

\* C6, amended: an UNCHANGED sample met while last_direction is undefined
\* raises nothing and prints nothing; the sample is recorded with the running
\* angle as it stands, last_direction stays undefined and the run goes on.
C6_UndefinedHoldIsSilent ==
    [][AtUndefinedHold =>
          /\ pc' = pc
          /\ exc' = NoException
          /\ wtf_printed' = FALSE
          /\ current_angle' = current_angle
          /\ out' = Append(out, current_angle)
          /\ last_direction' = "None"
          /\ row' = row + 1]_vars

\* two UNCHANGED samples were taken with no direction seen, and the run goes on
C6_Witness ==
    /\ Integrating
    /\ Len(out) = 2
    /\ DirectionOf(1) = "" /\ DirectionOf(2) = ""
    /\ last_direction = "None"
    /\ exc = NoException

\* C7: in the trimmed sequence the first retained sample has velocity 0 and
\* every later one has the angle difference to the previous retained sample
\* divided by the time difference to it, or 0 when that time difference is 0;
\* the estimator raises nothing.
C7_VelocityAgainstPreviousRetained ==
    /\ pc = "crashed" => exc.line \notin 352..383
    /\ HasCol(df, "velocity_deg_per_s") =>
         /\ df.velocity_deg_per_s[df.index[1]].num = 0
         /\ \A k \in 2..Len(df.index) :
              LET cur == df.index[k]
                  prev == df.index[k - 1]
                  dtheta == df.angle_deg[cur] - df.angle_deg[prev]
                  dt == df.timestamp_normalized_s[cur] - df.timestamp_normalized_s[prev]
                  v == df.velocity_deg_per_s[cur]
              IN IF dt = 0 THEN v.num = 0 /\ v.den # 0
                 ELSE v.den # 0 /\ v.num * dt = dtheta * v.den

\* a retained sample whose predecessor in the trimmed sequence is not its raw
\* predecessor got a velocity other than 0
C7_Witness ==
    /\ pc = "output"
    /\ \E k \in 2..Len(df.index) :
          /\ df.index[k - 1] # df.index[k] - 1
          /\ df.velocity_deg_per_s[df.index[k]].num # 0

encode(a, b) ==
    CASE a = 0 /\ b = 0 -> "00"
      [] a = 0 /\ b = 1 -> "01"
      [] a = 1 /\ b = 0 -> "10"
      [] a = 1 /\ b = 1 -> "11"

AllBinary == \A l \in Labels(df) : Binary(df.chan_a[l]) /\ Binary(df.chan_b[l])

\* C8: for binary channel readings current_code is encode(a, b), previous_code
\* is the current_code of the sample before, and that of sample 0 is its own.
C8_BitmaskEncodesChannels ==
    (HasCol(df, "previous_position_bitmask") /\ AllBinary) =>
        \A l \in Labels(df) :
            /\ df.current_position_bitmask[l] = encode(df.chan_a[l], df.chan_b[l])
            /\ l = 0 => df.previous_position_bitmask[l] = df.current_position_bitmask[0]
            /\ (l > 0 /\ (l - 1) \in Labels(df)) =>
                  df.previous_position_bitmask[l] = df.current_position_bitmask[l - 1]

\* the codes of a binary capture that goes 01, 10, 10 have been generated
C8_Witness ==
    /\ pc = "direction"
    /\ AllBinary
    /\ Len(df.index) = 3
    /\ df.current_position_bitmask[0] = "01"
    /\ df.current_position_bitmask[1] = "10"
    /\ df.previous_position_bitmask[1] = "01"
    /\ df.previous_position_bitmask[2] = "10"

\* C9: a sample with a channel value other than 0 or 1 aborts the run; no such
\* sample is carried into direction classification and angle integration.
C9_InvalidChannelAborts ==
    HasCol(df, "angle_deg") => AllBinary

\* the worked example is being processed, no row trimmed away yet
InScenarioCW ==
    /\ ENCODER_RESOLUTION = 4
    /\ HasCol(df, "time")
    /\ df.index = <<0, 1, 2, 3, 4, 5>>
    /\ df.time = [l \in 0..5 |-> l]
    /\ df.chan_a = [l \in 0..5 |-> <<0, 0, 0, 1, 1, 0>>[l + 1]]
    /\ df.chan_b = [l \in 0..5 |-> <<0, 0, 1, 1, 0, 0>>[l + 1]]

\* C10: readings (0,0),(0,0),(0,1),(1,1),(1,0),(0,0) at resolution 4 get the
\* codes 00,00,01,11,10,00, are UNCHANGED twice and then CW four times, and
\* the angles 0,0,90,180,270,360, with no error on the way.
C10_ScenarioCodesDirectionsAngles ==
    InScenarioCW =>
        /\ pc # "crashed"
        /\ HasCol(df, "current_position_bitmask") =>
              df.current_position_bitmask =
                  [l \in 0..5 |-> <<"00", "00", "01", "11", "10", "00">>[l + 1]]
        /\ HasCol(df, "direction") =>
              df.direction = [l \in 0..5 |-> <<"", "", "CW", "CW", "CW", "CW">>[l + 1]]
        /\ HasCol(df, "angle_deg") =>
              df.angle_deg = [l \in 0..5 |->
                                <<0, 0, 90, 180, 270, 360>>[l + 1] * AngleUnitsPerDeg]

\* the worked example has its angles and waits to be trimmed
C10_Witness ==
    /\ InScenarioCW
    /\ pc = "trim"
    /\ HasCol(df, "angle_deg")

\* C11, as the specification states it: the worked example at resolution 4 leaves
\* trim and velocity with the four samples of indices 2, 3, 4, 5 and the
\* velocities 0, 90, 90, 90 deg/s.
C11_ScenarioTrimmedVelocities ==
    (ENCODER_RESOLUTION = 4 /\ pc = "output") =>
        /\ df.index = <<2, 3, 4, 5>>
        /\ \A l \in 2..5 :
              LET v == df.velocity_deg_per_s[l]
                  want == <<0, 90, 90, 90>>[l - 1]
              IN IF want = 0 THEN v.num = 0
                 ELSE v.den # 0 /\ v.num = want * AngleUnitsPerDeg * v.den

\* C13, as the specification states it: after a capture has ended in an error
\* main can still load the next capture of the batch.
C13_FailedCaptureIsSkipped ==
    exc # NoException => ENABLED Load

\* the rows of df are a valid capture: at least one sample, binary channels, and
\* every sample's code equal or adjacent in the cycle to the code before it
ValidCapture ==
    /\ Len(df.index) > 0
    /\ HasCol(df, "time")
    /\ AllBinary
    /\ \A k \in 2..Len(df.index) :
          LET cur == encode(df.chan_a[df.index[k]], df.chan_b[df.index[k]])
              prev == encode(df.chan_a[df.index[k - 1]], df.chan_b[df.index[k - 1]])
          IN \/ cur = prev
             \/ CyclePos(cur) = (CyclePos(prev) + 1) % 4
             \/ CyclePos(prev) = (CyclePos(cur) + 1) % 4

\* C14: a valid non-empty capture never ends in an exception, its first sample
\* has normalized timestamp 0 and angle 0, and every normalized timestamp is the
\* sample's timestamp less the first sample's.
C14_ValidCaptureCompletesFromZero ==
    ValidCapture =>
        /\ pc # "crashed"
        /\ HasCol(df, "timestamp_normalized_s") =>
              /\ 0 \in Labels(df)
              /\ df.timestamp_normalized_s[0] = 0
              /\ \A l \in Labels(df) :
                    df.timestamp_normalized_s[l] = df.time[l] - df.time[0]
        /\ HasCol(df, "angle_deg") => (0 \in Labels(df) /\ df.angle_deg[0] = 0)
        /\ (Integrating /\ Len(out) >= 1) => out[1] = 0

\* a valid capture that starts at time 1 has come through with a later sample
C14_Witness ==
    /\ pc = "output"
    /\ ValidCapture
    /\ df.time[0] = 1
    /\ \E l \in Labels(df) : df.timestamp_normalized_s[l] > 0

\* angles the integrator can hold within the bounds
IntegratorAngles == {k * Step : k \in (0 - MaxLen)..MaxLen}

\* C15: a CW sample followed at once by a CCW sample leaves the angle where it
\* was before the CW sample, and likewise CCW followed by CW; in the recorded
\* angles, and, whenever the integrator is about to start, for
\* track_angular_change from any angle and last direction.
C15_RoundTripReturnsAngle ==
    /\ \A k \in 3..NIntegrated :
          (\/ DirectionOf(k - 1) = "CW" /\ DirectionOf(k) = "CCW"
           \/ DirectionOf(k - 1) = "CCW" /\ DirectionOf(k) = "CW")
              => AngleOf(k) = AngleOf(k - 2)
    /\ pc \in {"load", "angle"} =>
       \A a \in IntegratorAngles, ld \in {"None", "CW", "CCW"} :
          LET st == [current_angle |-> a, last_direction |-> ld, printed |-> FALSE]
              cw == [change_occurred |-> 1, direction |-> "CW"]
              ccw == [change_occurred |-> 1, direction |-> "CCW"]
          IN /\ track_angular_change(ccw, track_angular_change(cw, st)).current_angle = a
             /\ track_angular_change(cw, track_angular_change(ccw, st)).current_angle = a

\* the integrator has gone one step back and returned
C15_Witness ==
    /\ Integrating
    /\ Len(out) = 3
    /\ AllBinary
    /\ DirectionOf(2) = "CCW"
    /\ DirectionOf(3) = "CW"
    /\ out[2] = 0 - Step
    /\ out[3] = out[1]

\* sample l differs from sample 0 on a channel
DiffersFromFirst(l) == df.chan_a[l] # df.chan_a[0] \/ df.chan_b[l] # df.chan_b[0]

\* C16: when some sample differs from sample 0, the detector reports the smallest
\* index of such a sample, and it leaves the index and the samples of the
\* sequence as they were.
C16_OriginIsFirstDifferingSample ==
    [][(pc = "detect_initial" /\ \E l \in Labels(df) : DiffersFromFirst(l)) =>
          /\ pc' = "normalize"
          /\ \E l \in Labels(df) :
                /\ origin_idx' = <<l>>
                /\ DiffersFromFirst(l)
                /\ \A m \in Labels(df) : DiffersFromFirst(m) => l <= m
          /\ df'.index = df.index
          /\ df'.time = df.time
          /\ df'.chan_a = df.chan_a
          /\ df'.chan_b = df.chan_b]_vars

\* the detector has reported the third of three samples, the second one also
\* matching the first
C16_Witness ==
    /\ pc = "normalize"
    /\ Len(df.index) = 3
    /\ origin_idx = <<2>>
    /\ ~DiffersFromFirst(1)

\* C17, as the specification states it: when every sample equals sample 0 the
\* detector reports no index.
C17_NoMotionReportsNoIndex ==
    (/\ pc = "normalize"
     /\ \A l \in Labels(df) : ~DiffersFromFirst(l))
        => origin_idx = <<>>

\* the stage a control point belongs to
StageOf(p) ==
    CASE p = "check_direction" -> "direction"
      [] p = "track_angular_change" -> "angle"
      [] OTHER -> p
\* the stages in the order the specification gives, and in the order of main
SpecifiedOrder ==
    <<"normalize", "detect_initial", "bitmask", "direction", "angle", "trim", "velocity">>
MainOrder ==
    <<"detect_initial", "normalize", "bitmask", "direction", "angle", "trim", "velocity">>
\* one step of main respects the order o: the first stage follows the load,
\* each other stage follows the one before it, and the output the last
InOrder(o) ==
    (StageOf(pc') # StageOf(pc) /\ pc' \notin {"crashed", "load", "done"}) =>
        IF pc = "load" THEN pc' = o[1]
        ELSE IF pc' = "output" THEN StageOf(pc) = o[7]
        ELSE \E k \in 1..6 : o[k] = StageOf(pc) /\ o[k + 1] = pc'

\* C18, as the specification states it: the stages run in the order timestamp
\* normalizer, stable-origin detector, bitmask, direction, integrator, trimmer,
\* velocity.
C18_StagesInSpecifiedOrder == [][InOrder(SpecifiedOrder)]_vars

\* C18, amended: the stages run in the order stable-origin detector, timestamp
\* normalizer, bitmask, direction, integrator, trimmer, velocity, each starting
\* only when the one before it has finished.
C18_StagesInMainOrder == [][InOrder(MainOrder)]_vars

\* a capture has been through all seven stages
C18_Witness ==
    /\ pc = "output"
    /\ HasCol(df, "matches_initial_position")
    /\ HasCol(df, "timestamp_normalized_s")
    /\ HasCol(df, "velocity_deg_per_s")

\* C19, as the specification states it: the error that ends the run over a
\* capture with no samples is EmptyCapture.
C19_EmptyCaptureRejected ==
    (HasCol(df, "time") /\ Len(df.index) = 0 /\ exc # NoException)
        => exc.type = "EmptyCapture"

\* C20, as the specification states it: a stop call that follows a start call
\* returns the time elapsed since that start call, and a stop call returns a
\* negative value only when no start call came before it since the last stop.
C20_StopReturnsElapsed ==
    timer_hist.last = "stop" =>
        /\ timer_hist.was_pending # <<>> =>
              /\ timer_ret[1] >= 0
              /\ timer_ret[1] = timer_hist.at - timer_hist.was_pending[1]
        /\ timer_ret[1] < 0 => timer_hist.was_pending = <<>>

\* C12: when main processes the same rows a second time, the second run ends in
\* no exception and puts out the dataframe the first run put out.
C12_SecondRunRepeatsFirst ==
    first_run.n = 3 =>
        /\ pc # "crashed"
        /\ pc = "output" => df = first_run.output

\* the second run ends after a first run that moved the angle
C12_Witness ==
    /\ first_run.n = 3
    /\ pc = "output"
    /\ \E l \in Labels(df) : df.angle_deg[l] # 0

\* C21, as the specification states it: change_occurred is set exactly on the
\* samples whose code differs from the previous code, and a sample with no
\* change is classified UNCHANGED whatever its codes are, never raising.
C21_UnchangedNeverRaises ==
    [][/\ HasCol(df, "change_occurred") =>
            \A l \in Labels(df) : (df.change_occurred[l] = 1) <=> Changed(l)
       /\ (/\ pc = "check_direction"
           /\ row <= Len(df.index)
           /\ ~Changed(df.index[row]))
            => /\ pc' = "check_direction"
               /\ out' = Append(out, "")]_vars

\* the 2-bit codes and the number of bits in which two of them differ
Codes2 == {"00", "01", "10", "11"}
BitsOf(code) == CHOOSE ab \in {0, 1} \X {0, 1} : encode(ab[1], ab[2]) = code
NDiffer(c, p) ==
    (IF BitsOf(c)[1] # BitsOf(p)[1] THEN 1 ELSE 0)
  + (IF BitsOf(c)[2] # BitsOf(p)[2] THEN 1 ELSE 0)
\* the k-th row of df carries two 2-bit codes
Coded(k) ==
    /\ df.current_position_bitmask[df.index[k]] \in Codes2
    /\ df.previous_position_bitmask[df.index[k]] \in Codes2
NDifferAt(k) == NDiffer(df.current_position_bitmask[df.index[k]],
                        df.previous_position_bitmask[df.index[k]])

\* check_direction agrees with the bit count on each of the 16 pairs of codes
GrayCodeOnAllPairs ==
    \A p \in Codes2, c \in Codes2 :
        LET r == check_direction([current_position_bitmask |-> c,
                                  previous_position_bitmask |-> p,
                                  change_occurred |-> change_flag(c, p),
                                  timestamp_normalized_s |-> 0], "")
        IN /\ (r.exc = NoException /\ r.current_direction \in {"CW", "CCW"})
                 <=> NDiffer(c, p) = 1
           /\ (r.exc # NoException) <=> NDiffer(c, p) = 2
           /\ (r.exc = NoException /\ r.current_direction = "")
                 <=> NDiffer(c, p) = 0

\* C22: over the 16 pairs of 2-bit codes check_direction returns CW or CCW
\* exactly on the pairs differing in one bit, raises exactly on the pairs
\* differing in both bits and returns UNCHANGED exactly on the equal pairs;
\* and so it did on every classified row of the capture.
C22_ClassifierMatchesGrayCode ==
    /\ GrayCodeOnAllPairs
    /\ \A k \in 1..NClassified :
          Coded(k) => /\ DirectionOf(k) \in {"CW", "CCW"} <=> NDifferAt(k) = 1
                      /\ DirectionOf(k) = "" <=> NDifferAt(k) = 0
    /\ (pc = "crashed" /\ Classifying /\ Coded(row)) => NDifferAt(row) = 2

\* the classifier accepted 00 -> 01 and then raised on 01 -> 10
C22_Witness ==
    /\ pc = "crashed"
    /\ Classifying
    /\ Len(out) = 2
    /\ out[2] = "CW"
    /\ df.previous_position_bitmask[df.index[row]] = "01"
    /\ df.current_position_bitmask[df.index[row]] = "10"

IllegalAt(k) ==
    LET l == df.index[k] IN
    /\ Changed(l)
    /\ InCycle(df.current_position_bitmask[l])
    /\ InCycle(df.previous_position_bitmask[l])
    /\ LET p == CyclePos(df.previous_position_bitmask[l])
           c == CyclePos(df.current_position_bitmask[l])
       IN c # (p + 1) % 4 /\ c # (p - 1) % 4

\* C24: the classifier raises at the illegal transition of lowest index, the
\* error carries that sample's code and normalized timestamp, all samples
\* before it have been classified in index order and none after it.
C24_FailsAtFirstOffence ==
    /\ (pc = "crashed" /\ exc.type = "ValueError" /\ exc.line = 295) =>
          /\ row <= Len(df.index)
          /\ IllegalAt(row)
          /\ \A k \in 1..(row - 1) : ~IllegalAt(k)
          /\ exc.bitmask = df.current_position_bitmask[df.index[row]]
          /\ exc.timestamp = df.timestamp_normalized_s[df.index[row]]
          /\ Len(out) = row - 1
          /\ \A k \in 1..(row - 1) :
                out[k] = IF ~Changed(df.index[k]) THEN ""
                         ELSE IF CyclePos(df.current_position_bitmask[df.index[k]])
                                 = (CyclePos(df.previous_position_bitmask[df.index[k]]) + 1) % 4
                         THEN "CW" ELSE "CCW"
          /\ ~HasCol(df, "direction")
    /\ pc = "check_direction" =>
          /\ Len(out) = row - 1
          /\ \A k \in 1..Len(out) : ~IllegalAt(k)
    /\ HasCol(df, "direction") => \A k \in 1..Len(df.index) : ~IllegalAt(k)

\* the classifier stopped at the third sample, one time unit after the first
C24_Witness ==
    /\ pc = "crashed"
    /\ exc.type = "ValueError" /\ exc.line = 295
    /\ row = 3
    /\ out = <<"", "CCW">>
    /\ df.time[0] = 1
    /\ exc.timestamp = 1

\* CW samples less CCW samples among the first k rows
RECURSIVE NetSteps(_)
NetSteps(k) ==
    IF k = 0 THEN 0
    ELSE NetSteps(k - 1) + (IF DirectionOf(k) = "CW" THEN 1
                            ELSE IF DirectionOf(k) = "CCW" THEN 0 - 1 ELSE 0)

\* C27: before the trim, the angle of every integrated sample i is the step
\* times the number of CW samples less the number of CCW samples among the
\* samples 0..i.
C27_AngleIsNetStepCount ==
    (Untrimmed /\ HasCol(df, "direction")) =>
        \A k \in 1..NIntegrated : AngleOf(k) = Step * NetSteps(k)

\* the integrator has taken two CW samples after the first sample
C27_Witness ==
    /\ Integrating
    /\ AllBinary
    /\ Len(out) = 3
    /\ DirectionOf(2) = "CW" /\ DirectionOf(3) = "CW"
    /\ out[3] = 2 * Step

ExpectedChannels(cat) ==
    CASE cat = "flir_blackfly_s" -> <<"DIO 0", "DIO 1">>
      [] cat = "rpi_cam" -> <<"DIO 1", "DIO 2">>
      [] cat = "sbs_encoder_data" -> <<"DIO 0", "DIO 1">>

\* C25: every dataset main processes belongs to a supported category and is
\* processed with the channel names of its own category, whatever categories
\* came before it; so are the names while main is in the loop over a
\* category's datasets.
C25_ChannelsFollowCategory ==
    /\ \A k \in 1..Len(processed) :
          /\ processed[k].category \in {"flir_blackfly_s", "rpi_cam", "sbs_encoder_data"}
          /\ <<processed[k].chan_a, processed[k].chan_b>>
                = ExpectedChannels(processed[k].category)
    /\ main_pc = "for_dataset" =>
          /\ category \in {"flir_blackfly_s", "rpi_cam", "sbs_encoder_data"}
          /\ <<LOGIC_ANALYZER_ENCODER_CHAN_A, LOGIC_ANALYZER_ENCODER_CHAN_B>>
                = ExpectedChannels(category)

\* a dataset of rpi_cam has been processed after one of flir_blackfly_s
C25_Witness ==
    /\ Len(processed) >= 2
    /\ processed[1].category = "flir_blackfly_s"
    /\ processed[Len(processed)].category = "rpi_cam"

\* C26, as the specification states it: a non-empty entered path is returned
\* with a trailing "/", appended only when missing, and the default path is
\* returned only for the empty string.
C26_PathGetsTrailingSlash ==
    path_returned # <<>> =>
        LET path == path_entered[1] IN
        IF path = <<>> THEN path_returned[1] = default_path
        ELSE IF endswith(path, "/") THEN path_returned[1] = path
        ELSE path_returned[1] = path \o <<"/">>

====
